---- MODULE Spec2Model ----
(***************************************************************************)
(* Panda Park dashboards: the Streamlit script src/app.py and the Gradio   *)
(* module src/main.py over the file panda-park-data.json.                  *)
(*                                                                         *)
(* Strings that the programs compare by order (transaction_date) or parse  *)
(* (entry_time) are tuples of digits, one digit per character, so that     *)
(* Python's lexicographic string order and pandas' timestamp parsing are   *)
(* computed rather than assumed.  An entry_time is the "HH" part of the    *)
(* timestamp, the only part the programs read back (.dt.hour).             *)
(* A DataFrame is a sequence of rows, each carrying its index label idx    *)
(* (0-based, as pandas numbers them).                                      *)
(***************************************************************************)
EXTENDS Integers, Sequences, FiniteSets

VARIABLES disk, app, main

vars == <<disk, app, main>>

-----------------------------------------------------------------------------
(* Bounds of the model *)

MaxRows == 3
MaxDailyRows == 4
MaxHourRows == 2

-----------------------------------------------------------------------------
(* The input file *)

Methods == {"QRIS", "OVO", "qris"}
Dates == {<<1>>, <<1, 0>>, <<2>>}
EntryTimes == {<<>>, <<0, 9>>, <<1, 0>>, <<1, 2>>, <<1, 3>>, <<1, 5>>, <<1, 6>>,
               <<1, 8>>, <<1, 9>>, <<2, 1>>, <<2, 2>>, <<2, 4>>}

RawRows(D, T, M) ==
    [transaction_date : D, entry_time : T, duration_minutes : {30},
     payment_method : M, capture_license_plate_url : {""}]

MissingFile == [exists |-> FALSE, json_ok |-> FALSE, data |-> <<>>]
TruncatedFile == [exists |-> TRUE, json_ok |-> FALSE, data |-> <<>>]

Files(D, T, M, n) ==
    {MissingFile, TruncatedFile} \cup
    {[exists |-> TRUE, json_ok |-> TRUE, data |-> d] :
        d \in UNION {[1..k -> RawRows(D, T, M)] : k \in 0..n}}

-----------------------------------------------------------------------------
(* pandas / Python primitives the two programs call *)

\* str < str: lexicographic, a proper prefix sorts first
RECURSIVE StrLess(_, _)
StrLess(a, b) ==
    IF b = <<>> THEN FALSE
    ELSE IF a = <<>> THEN TRUE
    ELSE IF a[1] # b[1] THEN a[1] < b[1]
    ELSE StrLess(Tail(a), Tail(b))

NaT == [nat |-> TRUE, hour |-> 0]
NaN == [nan |-> TRUE, v |-> 0]

\* pd.to_datetime with errors="raise": an empty string is a missing value
\* and becomes NaT without raising; any other string that is no timestamp
\* raises.
to_datetime_raises(s) ==
    s # <<>> /\ ~(Len(s) = 2 /\ s[1] * 10 + s[2] <= 23)

to_datetime(s) ==
    IF s = <<>> THEN NaT ELSE [nat |-> FALSE, hour |-> s[1] * 10 + s[2]]

\* Series.dt.hour: NaT gives NaN
dt_hour(t) == IF t.nat THEN NaN ELSE [nan |-> FALSE, v |-> t.hour]

\* comparisons of a float column with a number: NaN compares False
hour_ge(h, n) == ~h.nan /\ h.v >= n
hour_le(h, n) == ~h.nan /\ h.v <= n
hour_lt(h, n) == ~h.nan /\ h.v < n

\* json.load + pd.DataFrame + the entry_dt column.  An empty array gives a
\* frame without columns, and df["entry_time"] raises KeyError.
load_data(file) ==
    IF ~file.exists \/ ~file.json_ok \/ file.data = <<>>
       \/ (\E i \in 1..Len(file.data) : to_datetime_raises(file.data[i].entry_time))
    THEN [ok |-> FALSE, df |-> <<>>]
    ELSE [ok |-> TRUE,
          df |-> [i \in 1..Len(file.data) |->
                    [idx |-> i - 1,
                     rec |-> file.data[i],
                     entry_dt |-> to_datetime(file.data[i].entry_time)]]]

-----------------------------------------------------------------------------
(* Statistics, computed alike by both programs *)

\* df["entry_hour"] = df["entry_dt"].dt.hour
with_entry_hour(d) ==
    [i \in 1..Len(d) |->
        [idx |-> d[i].idx, rec |-> d[i].rec, entry_dt |-> d[i].entry_dt,
         entry_hour |-> dt_hour(d[i].entry_dt)]]

\* groupby(..., sort=False): a new key goes last, in order of appearance
RECURSIVE add_to_group_unsorted(_, _)
add_to_group_unsorted(g, k) ==
    IF g = <<>> THEN <<[transaction_date |-> k, count |-> 1]>>
    ELSE IF g[1].transaction_date = k
         THEN <<[transaction_date |-> k, count |-> g[1].count + 1]>> \o Tail(g)
    ELSE <<g[1]>> \o add_to_group_unsorted(Tail(g), k)

\* one more row under key k of a grouping kept in ascending key order
RECURSIVE add_to_group(_, _)
add_to_group(g, k) ==
    IF g = <<>> THEN <<[transaction_date |-> k, count |-> 1]>>
    ELSE IF g[1].transaction_date = k
         THEN <<[transaction_date |-> k, count |-> g[1].count + 1]>> \o Tail(g)
    ELSE IF StrLess(k, g[1].transaction_date)
         THEN <<[transaction_date |-> k, count |-> 1]>> \o g
    ELSE <<g[1]>> \o add_to_group(Tail(g), k)

\* a grouping that counts every key once, however many rows carry it
RECURSIVE groupby_first(_)
groupby_first(d) ==
    IF d = <<>> THEN <<>>
    ELSE LET g == groupby_first(SubSeq(d, 1, Len(d) - 1))
             k == d[Len(d)].rec.transaction_date
         IN IF \E i \in 1..Len(g) : g[i].transaction_date = k THEN g
            ELSE add_to_group(g, k)

\* df.groupby("transaction_date").size().reset_index(name="count")
RECURSIVE groupby_size(_)
groupby_size(d) ==
    IF d = <<>> THEN <<>>
    ELSE add_to_group(groupby_size(SubSeq(d, 1, Len(d) - 1)),
                      d[Len(d)].rec.transaction_date)

\* a row put into a frame sorted by transaction_date, after its equals
RECURSIVE insert_sorted(_, _)
insert_sorted(g, e) ==
    IF g = <<>> THEN <<e>>
    ELSE IF StrLess(e.transaction_date, g[1].transaction_date) THEN <<e>> \o g
    ELSE <<g[1]>> \o insert_sorted(Tail(g), e)

\* DataFrame.sort_values("transaction_date")
RECURSIVE sort_values(_)
sort_values(g) ==
    IF g = <<>> THEN <<>>
    ELSE insert_sorted(sort_values(SubSeq(g, 1, Len(g) - 1)), g[Len(g)])

\* app.py: date_group
date_group(d) == sort_values(groupby_size(d))

\* main.py: line_data
line_data(d) == groupby_size(d)

\* app.py: selected_day, today_count, delta_day
selected_day(dg) == dg[Len(dg)].transaction_date

today_count(dg) == dg[Len(dg)].count

delta_day_zero(dg) ==
    IF Len(dg) >= 2 THEN today_count(dg) - dg[Len(dg) - 1].count ELSE 0

delta_day(dg) ==
    today_count(dg) - (IF Len(dg) >= 2 THEN dg[Len(dg) - 1].count ELSE 0)

\* the comparison of max() turned round
RECURSIVE column_min(_)
column_min(d) ==
    IF Len(d) = 1 THEN d[1].rec.transaction_date
    ELSE LET m == column_min(Tail(d))
             x == d[1].rec.transaction_date
         IN IF StrLess(x, m) THEN x ELSE m

\* main.py: df["transaction_date"].max()
RECURSIVE column_max(_)
column_max(d) ==
    IF Len(d) = 1 THEN d[1].rec.transaction_date
    ELSE LET m == column_max(Tail(d))
             x == d[1].rec.transaction_date
         IN IF StrLess(m, x) THEN x ELSE m

\* main.py: len(df[df["transaction_date"] == selected_day])
transactions_for_day(d, day) ==
    Len(SelectSeq(d, LAMBDA e : e.rec.transaction_date = day))

\* a bucket closed at its upper end
seg_closed(d, lo, hi) ==
    Len(SelectSeq(d, LAMBDA e : hour_ge(e.entry_hour, lo) /\ ~e.entry_hour.nan
                                /\ e.entry_hour.v <= hi))

\* len(df[(df["entry_hour"] >= lo) & (df["entry_hour"] < hi)])
seg(d, lo, hi) ==
    Len(SelectSeq(d, LAMBDA e : hour_ge(e.entry_hour, lo) /\ hour_lt(e.entry_hour, hi)))

BusyKeys == {"10-13", "13-16", "16-19", "19-22"}

\* app.py: busy_hours
busy_hours(d) ==
    [k \in BusyKeys |->
        CASE k = "10-13" -> seg(d, 10, 13)
          [] k = "13-16" -> seg(d, 13, 16)
          [] k = "16-19" -> seg(d, 16, 19)
          [] k = "19-22" -> seg(d, 19, 22)]

\* main.py: seg1, seg2, seg3, seg4
segments(d) == <<seg(d, 10, 13), seg(d, 13, 16), seg(d, 16, 19), seg(d, 19, 22)>>

-----------------------------------------------------------------------------
(* Filtering and the edit form *)

payment_options == <<"All", "EMONEY", "FLASH", "QRIS", "GOPAY", "DANA", "OVO">>

\* values a caller of filter_data may pass beside the dropdown's choices
FilterArgs == {payment_options[i] : i \in 1..Len(payment_options)} \cup {"qris", "CASH"}

\* DataFrame.reset_index(drop=True)
reset_index_drop(f) ==
    [i \in 1..Len(f) |-> [f[i] EXCEPT !.idx = i - 1]]

Upper(m) == IF m = "qris" THEN "QRIS" ELSE m

\* a filter that matches without regard to case
filter_data_nocase(d, payment_method) ==
    IF payment_method # "All"
    THEN reset_index_drop(SelectSeq(d, LAMBDA e : Upper(e.rec.payment_method) = Upper(payment_method)))
    ELSE d

\* main.py: filter_data
filter_data(d, payment_method) ==
    IF payment_method # "All"
    THEN reset_index_drop(SelectSeq(d, LAMBDA e : e.rec.payment_method = payment_method))
    ELSE d

\* a filter without the "All" sentinel
filtered_df_noall(d, selected_pm) ==
    SelectSeq(d, LAMBDA e : e.rec.payment_method = selected_pm)

\* app.py: filtered_df
filtered_df(d, selected_pm) ==
    IF selected_pm # "All"
    THEN SelectSeq(d, LAMBDA e : e.rec.payment_method = selected_pm)
    ELSE d

\* app.py: display_df, the frame handed to the grid
display_df(f) ==
    [i \in 1..Len(f) |-> [idx |-> f[i].idx, rec |-> f[i].rec]]

\* the values the five inputs of edit_form may hold at submission: each is
\* the record's value or a value typed over it
FormInputs(record) ==
    [transaction_date : {record.rec.transaction_date, <<9>>},
     payment_method : {record.rec.payment_method, "CASH"},
     entry_time : {record.rec.entry_time},
     duration_minutes : {record.rec.duration_minutes, 45},
     capture_license_plate_url : {record.rec.capture_license_plate_url}]

\* app.py: the five filtered_df.loc[row_idx, ...] assignments
save_changes(f, record, form) ==
    [i \in 1..Len(f) |->
        IF f[i].idx = record.idx THEN [f[i] EXCEPT !.rec = form] ELSE f[i]]

\* df.update(filtered_df), which the program leaves commented out
df_update(d, f) ==
    [i \in 1..Len(d) |->
        IF \E k \in 1..Len(f) : f[k].idx = d[i].idx
        THEN [d[i] EXCEPT !.rec = (CHOOSE e \in {f[k] : k \in 1..Len(f)} : e.idx = d[i].idx).rec]
        ELSE d[i]]

\* app.py: df once "Save Changes" has run; the write-back is a comment
df_after_save(d, f) == d

-----------------------------------------------------------------------------
(* The two programs *)

AppUndefined ==
    [pc |-> "start", cache |-> <<>>, df |-> <<>>, total_transactions |-> 0,
     date_group |-> <<>>, selected_day |-> <<>>, today_count |-> 0,
     delta_day |-> 0, busy_hours |-> <<>>, selected_pm |-> "All",
     filtered_df |-> <<>>, display_df |-> <<>>, selected_rows |-> <<>>,
     submitted |-> FALSE]

MainUndefined ==
    [pc |-> "start", df |-> <<>>, total_transactions |-> 0,
     selected_day |-> <<>>, transactions_for_day |-> 0, segments |-> <<>>,
     line_data |-> <<>>, payment_dropdown |-> "All", data_table |-> <<>>]

\* one run of the script app.py, top to bottom, up to the edit form
AppScript(cached, pm, sel) ==
    LET d == with_entry_hour(cached)
        dg == date_group(d)
        f == filtered_df(d, pm)
    IN [pc |-> "loaded", cache |-> cached, df |-> d,
        total_transactions |-> Len(d),
        date_group |-> dg,
        selected_day |-> selected_day(dg),
        today_count |-> today_count(dg),
        delta_day |-> delta_day(dg),
        busy_hours |-> busy_hours(d),
        selected_pm |-> pm,
        filtered_df |-> f,
        display_df |-> display_df(f),
        selected_rows |-> sel,
        submitted |-> FALSE]

\* the module body of main.py
MainModule(loaded) ==
    LET d == with_entry_hour(loaded)
        day == column_max(d)
    IN [pc |-> "loaded", df |-> d,
        total_transactions |-> Len(d),
        selected_day |-> day,
        transactions_for_day |-> transactions_for_day(d, day),
        segments |-> segments(d),
        line_data |-> line_data(d),
        payment_dropdown |-> "All",
        data_table |-> d]

Init ==
    /\ disk \in Files({<<1>>}, {<<1, 1>>}, Methods, MaxRows)
    /\ app = AppUndefined
    /\ main = MainUndefined

InitDaily ==
    /\ disk \in Files(Dates, {<<1, 1>>}, {"QRIS"}, MaxDailyRows)
    /\ app = AppUndefined
    /\ main = MainUndefined

InitHours ==
    /\ disk \in Files({<<1>>}, EntryTimes, {"QRIS"}, MaxHourRows)
    /\ app = AppUndefined
    /\ main = MainUndefined

\* first run of app.py: load_data() runs, st.cache_data keeps its result
AppStart ==
    /\ app.pc = "start"
    /\ LET r == load_data(disk)
       IN app' = IF r.ok THEN AppScript(r.df, "All", <<>>)
                 ELSE [AppUndefined EXCEPT !.pc = "failed"]
    /\ UNCHANGED <<disk, main>>

\* the selectbox changes: the script reruns; the grid gets new rows and
\* keeps its selection at most when the selected row is still shown
AppSelectFilter ==
    /\ app.pc = "loaded"
    /\ \E i \in 1..Len(payment_options) :
         /\ payment_options[i] # app.selected_pm
         /\ \E keep \in BOOLEAN :
              LET run == AppScript(app.cache, payment_options[i], <<>>)
                  shown == {run.display_df[k] : k \in 1..Len(run.display_df)}
              IN app' = IF keep /\ app.selected_rows # <<>>
                           /\ app.selected_rows[1] \in shown
                        THEN [run EXCEPT !.selected_rows = app.selected_rows]
                        ELSE run
    /\ UNCHANGED <<disk, main>>

\* a grid row is clicked: the script reruns with that row as record
AppSelectRow ==
    /\ app.pc = "loaded"
    /\ \E k \in 1..Len(app.display_df) :
         /\ app.selected_rows # <<app.display_df[k]>>
         /\ app' = AppScript(app.cache, app.selected_pm, <<app.display_df[k]>>)
    /\ UNCHANGED <<disk, main>>

\* "Save Changes": the script reruns and the submitted branch writes the
\* form's values into filtered_df
AppSaveChanges ==
    /\ app.pc = "loaded"
    /\ app.selected_rows # <<>>
    /\ \E form \in FormInputs(app.selected_rows[1]) :
         LET run == AppScript(app.cache, app.selected_pm, app.selected_rows)
             edited == save_changes(run.filtered_df, app.selected_rows[1], form)
         IN app' = [run EXCEPT !.filtered_df = edited,
                               !.df = df_after_save(run.df, edited),
                               !.submitted = TRUE]
    /\ UNCHANGED <<disk, main>>

\* import of main.py
MainStart ==
    /\ main.pc = "start"
    /\ LET r == load_data(disk)
       IN main' = IF r.ok THEN MainModule(r.df)
                  ELSE [MainUndefined EXCEPT !.pc = "failed"]
    /\ UNCHANGED <<disk, app>>

\* payment_dropdown.change(fn=filter_data, outputs=data_table)
MainFilter ==
    /\ main.pc = "loaded"
    /\ \E m \in FilterArgs :
         /\ m # main.payment_dropdown
         /\ main' = [main EXCEPT !.payment_dropdown = m,
                                 !.data_table = filter_data(main.df, m)]
    /\ UNCHANGED <<disk, app>>

Next ==
    \/ AppStart
    \/ AppSelectFilter
    \/ AppSelectRow
    \/ AppSaveChanges
    \/ MainStart
    \/ MainFilter

NextStart ==
    \/ AppStart
    \/ MainStart

Spec == Init /\ [][Next]_vars

SpecDaily == InitDaily /\ [][NextStart]_vars

SpecHours == InitHours /\ [][NextStart]_vars

-----------------------------------------------------------------------------
(* Vocabulary of the properties, stated on the rows themselves *)

Loaded(p) == p.pc = "loaded"

DistinctDates(d) == {d[i].rec.transaction_date : i \in 1..Len(d)}

CountOn(d, day) == Cardinality({i \in 1..Len(d) : d[i].rec.transaction_date = day})

\* the date of S that sorts last
Greatest(S) == CHOOSE x \in S : \A y \in S \ {x} : StrLess(y, x)

RECURSIVE SumCounts(_)
SumCounts(g) == IF g = <<>> THEN 0 ELSE g[1].count + SumCounts(Tail(g))

\* a daily series: strictly ascending dates, every date of d once, with
\* the number of rows of d on that date
IsDailySeries(g, d) ==
    /\ \A i \in 1..Len(g) - 1 : StrLess(g[i].transaction_date, g[i + 1].transaction_date)
    /\ {g[i].transaction_date : i \in 1..Len(g)} = DistinctDates(d)
    /\ Len(g) = Cardinality(DistinctDates(d))
    /\ \A i \in 1..Len(g) : g[i].count >= 1

\* the entry hour a record's entry_time states, when it states one
HasHour(e) == Len(e.rec.entry_time) = 2
HourOf(e) == e.rec.entry_time[1] * 10 + e.rec.entry_time[2]
InRange(e, lo, hi) == HasHour(e) /\ lo <= HourOf(e) /\ HourOf(e) < hi
RowsInRange(d, lo, hi) == {i \in 1..Len(d) : InRange(d[i], lo, hi)}

Matching(d, m) == {i \in 1..Len(d) : d[i].rec.payment_method = m}
Kth(S, k) == CHOOSE i \in S : Cardinality({j \in S : j < i}) = k - 1

\* t holds exactly the records of d paid by m, in d's order
IsExactSubset(t, d, m) ==
    /\ Len(t) = Cardinality(Matching(d, m))
    /\ \A k \in 1..Len(t) : t[k].rec = d[Kth(Matching(d, m), k)].rec

\* t holds the records of d, all of them, in d's order
SameRecords(t, d) ==
    /\ Len(t) = Len(d)
    /\ \A k \in 1..Len(t) : t[k].rec = d[k].rec /\ t[k].idx = d[k].idx

-----------------------------------------------------------------------------
(* C1 as stated: deltaFromPrevious is the last daily count minus the
   second-to-last one when two distinct dates exist, and 0 when fewer
   than two distinct dates exist. *)
C1_DeltaIsZeroOnSingleDate ==
    Loaded(app) =>
        LET days == DistinctDates(app.df)
            last == Greatest(days)
        IN app.delta_day =
             IF Cardinality(days) >= 2
             THEN CountOn(app.df, last) - CountOn(app.df, Greatest(days \ {last}))
             ELSE 0

(* C1 amended: deltaFromPrevious is the last daily count minus the
   second-to-last one when two distinct dates exist, and the last daily
   count itself (the previous count taken as 0) when only one date exists. *)
C1_DeltaFromPrevious ==
    Loaded(app) =>
        LET days == DistinctDates(app.df)
            last == Greatest(days)
        IN app.delta_day =
             CountOn(app.df, last)
             - (IF Cardinality(days) >= 2
                THEN CountOn(app.df, Greatest(days \ {last})) ELSE 0)

C1_Witness ==
    /\ Loaded(app)
    /\ Cardinality(DistinctDates(app.df)) = 1
    /\ app.total_transactions = 4
    /\ app.delta_day = 4

(* C7: the total number of records equals the sum of the counts of the
   daily series, in both programs. *)
C7_TotalIsSumOfDailyCounts ==
    /\ Loaded(app) => app.total_transactions = SumCounts(app.date_group)
    /\ Loaded(main) => main.total_transactions = SumCounts(main.line_data)

C7_Witness ==
    /\ Loaded(app) /\ Loaded(main)
    /\ Len(app.date_group) = 2
    /\ app.date_group[1].count = 2
    /\ app.total_transactions = 3
    /\ SumCounts(main.line_data) = 3

(* C8: the daily series is strictly ascending by transaction_date and
   holds every distinct transaction_date exactly once, each with a count
   of at least 1. *)
C8_DailyCountsAscendingUnique ==
    /\ Loaded(app) => IsDailySeries(app.date_group, app.df)
    /\ Loaded(main) => IsDailySeries(main.line_data, main.df)

C8_Witness ==
    /\ Loaded(app) /\ Loaded(main)
    /\ Len(main.df) = 4
    /\ Len(main.line_data) = 3
    /\ main.df[1].rec.transaction_date = <<2>>
    /\ main.df[2].rec.transaction_date = <<1, 0>>
    /\ main.df[3].rec.transaction_date = <<1>>
    /\ main.df[4].rec.transaction_date = <<1, 0>>

(* C10: main.py's latest day (the maximum transaction_date) and its count
   equal app.py's (the last entry of the sorted daily series). *)
C10_VariantsAgreeOnLatestDay ==
    Loaded(app) /\ Loaded(main) =>
        /\ main.selected_day = app.selected_day
        /\ main.transactions_for_day = app.today_count
        /\ main.selected_day = Greatest(DistinctDates(main.df))

C10_Witness ==
    /\ Loaded(app) /\ Loaded(main)
    /\ Len(main.df) = 3
    /\ main.df[1].rec.transaction_date = <<1, 0>>
    /\ main.df[2].rec.transaction_date = <<2>>
    /\ main.df[3].rec.transaction_date = <<1>>
    /\ main.selected_day = <<2>>
    /\ app.today_count = 1

(* C5: a record whose entry hour h lies in [10,22) is counted in exactly
   the bucket [10,13), [13,16), [16,19) or [19,22) that contains h; a
   record whose hour lies outside [10,22) is counted in no bucket. *)
C5_HourBucketsHalfOpen ==
    /\ Loaded(app) =>
         /\ app.busy_hours["10-13"] = Cardinality(RowsInRange(app.df, 10, 13))
         /\ app.busy_hours["13-16"] = Cardinality(RowsInRange(app.df, 13, 16))
         /\ app.busy_hours["16-19"] = Cardinality(RowsInRange(app.df, 16, 19))
         /\ app.busy_hours["19-22"] = Cardinality(RowsInRange(app.df, 19, 22))
    /\ Loaded(main) =>
         /\ main.segments[1] = Cardinality(RowsInRange(main.df, 10, 13))
         /\ main.segments[2] = Cardinality(RowsInRange(main.df, 13, 16))
         /\ main.segments[3] = Cardinality(RowsInRange(main.df, 16, 19))
         /\ main.segments[4] = Cardinality(RowsInRange(main.df, 19, 22))

C5_Witness ==
    /\ Loaded(app) /\ Loaded(main)
    /\ Len(app.df) = 2
    /\ app.df[1].rec.entry_time = <<1, 3>>
    /\ app.df[2].rec.entry_time = <<2, 2>>
    /\ app.busy_hours["13-16"] = 1
    /\ app.busy_hours["10-13"] = 0
    /\ app.busy_hours["19-22"] = 0
    /\ main.segments = <<0, 1, 0, 0>>

BucketSum(b) == b["10-13"] + b["13-16"] + b["16-19"] + b["19-22"]

(* C6: the four bucket counts sum to at most the total number of records,
   and to exactly the total iff every record's entry hour lies in
   [10,22). *)
C6_BucketSumAtMostTotal ==
    /\ Loaded(app) =>
         /\ BucketSum(app.busy_hours) <= app.total_transactions
         /\ (BucketSum(app.busy_hours) = app.total_transactions)
              <=> (\A i \in 1..Len(app.df) : InRange(app.df[i], 10, 22))
    /\ Loaded(main) =>
         LET sum == main.segments[1] + main.segments[2] + main.segments[3] + main.segments[4]
         IN /\ sum <= main.total_transactions
            /\ (sum = main.total_transactions)
                 <=> (\A i \in 1..Len(main.df) : InRange(main.df[i], 10, 22))

C6_Witness ==
    /\ Loaded(app) /\ Loaded(main)
    /\ app.total_transactions = 2
    /\ BucketSum(app.busy_hours) = 1
    /\ app.df[1].rec.entry_time = <<1, 6>>
    /\ app.df[2].rec.entry_time = <<0, 9>>

\* an entry_time that is the text of a timestamp
Parseable(s) == Len(s) = 2 /\ s[1] * 10 + s[2] <= 23

LoadMustFail(file) ==
    \/ ~file.exists
    \/ ~file.json_ok
    \/ \E i \in 1..Len(file.data) : ~Parseable(file.data[i].entry_time)

(* C9: load fails when the file is missing, is not valid JSON, or holds a
   record whose entry_time cannot be parsed as a timestamp; after a failed
   load no transaction set and no statistic is exposed. *)
C9_LoadFailsOnUnparseableEntryTime ==
    /\ (app.pc # "start" /\ LoadMustFail(disk)) => app.pc = "failed"
    /\ (main.pc # "start" /\ LoadMustFail(disk)) => main.pc = "failed"
    /\ app.pc = "failed" => app = [AppUndefined EXCEPT !.pc = "failed"]
    /\ main.pc = "failed" => main = [MainUndefined EXCEPT !.pc = "failed"]

\* every row of view t is the row of d that carries the same index label
RowsOf(t, d) ==
    \A k \in 1..Len(t) :
        \E i \in 1..Len(d) : d[i].idx = t[k].idx /\ d[i].rec = t[k].rec

(* C2: no filter selection, row selection or "Save Changes" changes the
   backing set df or the file; an edit is held by the transient filtered
   copy alone, and every view computed afterwards holds rows of df only. *)
C2_EditsStayInTransientView ==
    [][/\ disk' = disk
       /\ Loaded(app) => (app'.df = app.df /\ app'.cache = app.cache)
       /\ Loaded(main) => main'.df = main.df
       /\ Loaded(app') => RowsOf(app'.display_df, app'.df)
       /\ (Loaded(app') /\ ~app'.submitted) => RowsOf(app'.filtered_df, app'.df)
       /\ Loaded(main') => \A k \in 1..Len(main'.data_table) :
                              \E i \in 1..Len(main'.df) :
                                  main'.df[i].rec = main'.data_table[k].rec]_vars

C2_Witness ==
    /\ Loaded(app)
    /\ app.submitted
    /\ app.selected_pm = "QRIS"
    /\ \E k \in 1..Len(app.filtered_df) :
         /\ app.filtered_df[k].rec.payment_method = "CASH"
         /\ app.filtered_df[k].rec.transaction_date = <<9>>
         /\ app.display_df[k].rec.payment_method = "QRIS"
    /\ \A i \in 1..Len(app.df) : app.df[i].rec = disk.data[i]

(* C3: filtering by a method m other than "All" gives exactly the records
   whose payment_method equals m, case-sensitively, in their original
   order; a value that matches no record gives an empty result. *)
C3_FilterExactSubset ==
    /\ (Loaded(main) /\ main.payment_dropdown # "All") =>
          IsExactSubset(main.data_table, main.df, main.payment_dropdown)
    /\ (Loaded(app) /\ app.selected_pm # "All") =>
          /\ IsExactSubset(app.display_df, app.df, app.selected_pm)
          /\ RowsOf(app.display_df, app.df)

C3_Witness ==
    /\ Loaded(main)
    /\ main.payment_dropdown = "QRIS"
    /\ Len(main.df) = 3
    /\ main.df[1].rec.payment_method = "QRIS"
    /\ main.df[2].rec.payment_method = "qris"
    /\ main.df[3].rec.payment_method = "QRIS"
    /\ Len(main.data_table) = 2

(* C4: filtering by "All" gives the input set itself: the same records in
   the same order. *)
C4_FilterAllIsIdentity ==
    /\ (Loaded(main) /\ main.payment_dropdown = "All") =>
          SameRecords(main.data_table, main.df)
    /\ (Loaded(app) /\ app.selected_pm = "All") =>
          SameRecords(app.display_df, app.df)

C4_Witness ==
    /\ Loaded(app)
    /\ app.selected_pm = "All"
    /\ app.selected_rows # <<>>
    /\ Len(app.display_df) = 3
    /\ app.display_df[1].rec.payment_method = "OVO"
    /\ app.display_df[2].rec.payment_method = "QRIS"
    /\ app.display_df[3].rec.payment_method = "qris"

====
